---- MODULE Spec2Model ----
(***************************************************************************)
(* Model of desktop-listener/main.py: the VideoServer ingestion core (one  *)
(* endpoint), the client side of its TCP connections, and the consumer     *)
(* (ViewerApp._poll_frames) that pops the endpoint's frame queue.          *)
(*                                                                         *)
(* Threads of control: the UI thread (start, stop, _poll_frames), the      *)
(* server threads created by start() (_run_server / _handle_client /       *)
(* _push_frame), and the remote client.  Every step of a server thread is  *)
(* one bytecode-level atomic operation on shared state (a queue method, an *)
(* Event method, an attribute write) or one blocking socket call.          *)
(***************************************************************************)
EXTENDS Integers, Sequences, FiniteSets, TLC

\* ------------------------------------------------------------------ bounds
MaxCalls == 3        \* start()/stop() calls in one run
MaxConns == 2        \* client connections in one run
MaxUnits == 2        \* protocol units a client sends on one connection
MaxTime == 1         \* clock ticks in one run
MaxCmds == 2         \* send_control_command calls in one run
MaxAdds == 2         \* clicks on the Add button of the add-camera dialog

\* ------------------------------------------------------- program constants
QueueMaxSize == 1            \* queue.Queue(maxsize=1)
MinPort == 1024              \* port < 1024 is refused by the add-camera dialog
MaxPort == 65535             \* port > 65535 is refused by the add-camera dialog
HeaderLen == 4               \* _recvall(client_socket, 4)
MetadataLimit == 1024        \* 0 < metadata_length < 1024
MaxFrameLength == 5242880    \* 5 * 1024 * 1024

\* --------------------------------------------------------------- encodings
\* struct.unpack('>I', b): four bytes, big-endian, to an unsigned integer.
\* (Values from 2^31 on, which the integers of the checker do not hold, are
\* given as 2^31 - 1: the program only compares the result with 0, 1024 and
\* 5242880.)
Unpack(b) == IF b[1] >= 128 THEN 2147483647
             ELSE b[1] * 16777216 + b[2] * 65536 + b[3] * 256 + b[4]

\* The client's struct.pack('>I', n): the inverse, on 0 <= n < 2^32.
Pack(n) == << (n \div 16777216) % 256, (n \div 65536) % 256,
              (n \div 256) % 256, n % 256 >>

\* ASCII of {"camera_id":"  and of  "}
JsonPrefix == << 123, 34, 99, 97, 109, 101, 114, 97, 95, 105, 100, 34, 58, 34 >>
JsonSuffix == << 34, 125 >>

\* Identity characters the clients of this model use, and their str form.
IdBytes == { 67, 68 }
Chr(b) == IF b = 67 THEN "C" ELSE "D"

\* json.loads(metadata_bytes.decode('utf-8')).get('camera_id', current), on the
\* payloads of this model: the object {"camera_id":"<c>"} gives <c>; every other
\* payload here is the object {} (no field: current), or raises
\* JSONDecodeError / UnicodeDecodeError / AttributeError, all swallowed, which
\* leaves current.
MetadataKeepsCurrent(bytes, current) == current
MetadataCameraId(bytes, current) ==
    IF /\ Len(bytes) = Len(JsonPrefix) + 1 + Len(JsonSuffix)
       /\ SubSeq(bytes, 1, Len(JsonPrefix)) = JsonPrefix
       /\ bytes[Len(JsonPrefix) + 1] \in IdBytes
       /\ SubSeq(bytes, Len(JsonPrefix) + 2, Len(bytes)) = JsonSuffix
    THEN Chr(bytes[Len(JsonPrefix) + 1])
    ELSE current

\* json.loads(metadata_bytes.decode('utf-8')) returns a dict (lines 140-142 run
\* to their end), on the payloads of this model: {"camera_id":"<c>"} and {}.
\* On the others decode or loads raises (invalid UTF-8, invalid JSON), which
\* line 143 swallows before line 141 assigns.
EmptyObject == << 123, 125 >>
MetadataParses(bytes) ==
    \/ bytes = EmptyObject
    \/ /\ Len(bytes) = Len(JsonPrefix) + 1 + Len(JsonSuffix)
       /\ SubSeq(bytes, 1, Len(JsonPrefix)) = JsonPrefix
       /\ bytes[Len(JsonPrefix) + 1] \in IdBytes
       /\ SubSeq(bytes, Len(JsonPrefix) + 2, Len(bytes)) = JsonSuffix

\* ------------------------------------------------------------ client units
\* What a client writes: a 4-byte length prefix, then (in a second write) body.
Unit(len, body) == [hdr |-> Pack(len), body |-> body]
FrameA == Unit(5, << 65, 65, 65, 65, 65 >>)                 \* [5]["AAAAA"]
FrameB == Unit(1, << 66 >>)                                 \* [1]["B"]
ZeroLen == Unit(0, << >>)                                   \* [0], no payload
\* a length above the bound, whose payload starts with bytes that read as [1]["C"]
TooLong == Unit(MaxFrameLength + 1, Pack(1) \o << 67 >>)
Hello == Unit(17, JsonPrefix \o << 67 >> \o JsonSuffix)      \* {"camera_id":"C"}
AllUnits == { FrameA, FrameB, ZeroLen, TooLong, Hello }
HelloD == Unit(17, JsonPrefix \o << 68 >> \o JsonSuffix)     \* {"camera_id":"D"}
NoField == Unit(2, EmptyObject)                             \* {}
BadUtf8 == Unit(1, << 255 >>)                               \* not UTF-8
\* first units of a connection: handshakes that succeed, handshakes that fail
\* (FrameB's payload is valid UTF-8 and not JSON), and FrameB as the frame after
HsUnits == { Hello, HelloD, NoField, BadUtf8, FrameB }

\* ------------------------------------------------------------------- state
VARIABLES
    should_run,            \* VideoServer._should_run (threading.Event)
    server_thread,         \* VideoServer._server_thread: index into thr, 0 = None
    client_socket,         \* VideoServer._client_socket: connection id, 0 = None
    client_output_stream,  \* VideoServer._client_output_stream, 0 = None
    camera_id,             \* VideoServer.camera_id
    frame_queue,           \* the endpoint's queue.Queue(maxsize=1), as a sequence
    stats,                 \* the endpoint's FrameStats
    thr,                   \* the server threads created so far (sequence of records)
    conns,                 \* the client connections made so far (sequence of records)
    now,                   \* time.time(), in whole seconds
    ui,                    \* the UI thread's position: "idle" or inside stop()
    calls,                 \* start()/stop() calls made so far
    lastCall,              \* the last start()/stop() call that returned
    lastPop,               \* what the consumer's last get_nowait gave
    lim,                   \* the limits of this run: [units, calls, conns, frames, time]
    hist,                  \* observation record (pushes, pops, branch flags)
    app,                   \* ViewerApp: the camera registry and the add dialog
    ctl                    \* the UI thread's send_control_command calls

vars == << should_run, server_thread, client_socket, client_output_stream,
           camera_id, frame_queue, stats, thr, conns, now, ui, calls, lastCall,
           lastPop, lim, hist, app, ctl >>

NoFrame == << >>           \* no item: queue.Empty / nothing popped yet

\* The tuple put on the queue: (frame_data, timestamp).
FrameItemPayloadOnly(frame_data, timestamp) == << frame_data >>
FrameItem(frame_data, timestamp) == << frame_data, timestamp >>

InitThread ==
    [pc |-> "bind", lsock |-> FALSE, cs |-> 0, frame_length |-> 0,
     frame_data |-> << >>, ts |-> 0, frame_count |-> 0, window_start |-> 0,
     drained |-> FALSE, exit |-> "none"]

InitStats == [fps |-> << 0, 1 >>, latency_ms |-> 0, last_updated |-> 0,
              camera_id |-> "Camera 1"]

\* hist observes the run and is read by no step of the program:
\*   torn          an item was put that is not the (frame_data, timestamp) given
\*   full          put_nowait raised queue.Full (the frame was dropped)
\*   lastPut       the frame of the last completed put_nowait call
\*   replaced      that call's drain loop had removed an unread frame
\*   since         what touched the queue since: "put" nothing, "pop1"/"pop2"
\*                 one / two or more get_nowait of the consumer, "drain" a
\*                 later _push_frame started removing
\*   emptyMidPush  a consumer get_nowait raised queue.Empty between a drain and
\*                 its put
\*   rejected      the frame headers rejected on open sessions: connection,
\*                 stream offset after the header, declared length
\*   startNoop     a start() call took the early return
\*   qAt           for each item of the queue, where its frame came from: the
\*                 connection and the stream offset at which its payload ended
\*   popAt         the same, for the last frame a consumer get_nowait returned
\*   disorder      a consumer get_nowait returned a frame of the connection of
\*                 the frame returned before it, from the same or an earlier
\*                 offset
\*   wn            the put_nowait calls that returned in the open session since
\*                 the start of its FPS window (line 128 or line 168)
NoOrigin == [c |-> 0, at |-> 0]
InitHist == [torn |-> FALSE, full |-> FALSE, lastPut |-> NoFrame,
             replaced |-> FALSE, since |-> "none",
             emptyMidPush |-> FALSE, rejected |-> {}, startNoop |-> FALSE,
             qAt |-> << >>, popAt |-> NoOrigin, disorder |-> FALSE,
             wn |-> 0]

\* ctl: the command of the send_control_command call in progress (<< >>: none),
\* the number of calls begun, and of the last call that ended its result
\* ("noop": no client attached; "sent"; "absorbed": an exception was caught at
\* line 212; "raised": an exception left the call) and the exception, if any.
InitCtl == [command |-> << >>, n |-> 0, res |-> "none", exc |-> "none"]

\* ViewerApp after line 256, _add_camera("Camera 1", args.host, args.port):
\* names and hosts are strings (sequences of code points), the objects of a
\* camera are numbered in the order of their construction (lines 276-278).
Camera1Name == << 67, 97, 109, 101, 114, 97, 32, 49 >>        \* "Camera 1"
DefaultHost == << 104 >>                                     \* "h"
\* (the add-camera dialog is closed: dialog FALSE, its entries and its error
\* label empty; a port entry is [num, val]: whether int() accepts the text,
\* and the value; adds counts the clicks on Add)
NoPort == [num |-> FALSE, val |-> 0]
InitApp ==
    [cameras |-> (Camera1Name :> [server |-> 3, stats |-> 2, queue |-> 1,
                                  host |-> DefaultHost, port |-> 5000]),
     nobj |-> 3, started |-> {}, active_camera_id |-> Camera1Name,
     dialog |-> FALSE, error_label |-> "",
     name_entry |-> << >>, host_entry |-> << >>, port_entry |-> NoPort,
     adds |-> 0]

InitCommon ==
    /\ app = InitApp
    /\ ctl = InitCtl
    /\ should_run = FALSE
    /\ server_thread = 0
    /\ client_socket = 0
    /\ client_output_stream = 0
    /\ camera_id = "Camera 1"
    /\ frame_queue = << >>
    /\ stats = InitStats
    /\ thr = << >>
    /\ conns = << >>
    /\ now = 0
    /\ ui = "idle"
    /\ calls = 0
    /\ lastCall = "none"
    /\ lastPop = NoFrame
    /\ hist = InitHist

\* ------------------------------------------------------------- socket reads
Alive(t) == thr[t].pc # "dead"            \* Thread.is_alive()
Inbuf(c) == conns[c].inbuf

\* _recvall(client_socket, n), n >= 1, as one blocking call: the outcomes it can
\* have in the current state, each [res, data, taken]; taken is the number of
\* bytes it removed from the socket.  res is "data" (bytes(data) returned),
\* "none" (timeout, or recv_into returned 0: None returned) or "oserror"
\* (recv_into raised OSError).  No outcome: the call stays blocked.
\* (a variant that, when fewer than n bytes arrive, returns the zero-filled
\* buffer instead of None)
Zeros(k) == [i \in 1..k |-> 0]
RecvallPadded(c, n) ==
    IF ~conns[c].srvOpen
    THEN { [res |-> "none", data |-> << >>, taken |-> 0],
           [res |-> "oserror", data |-> << >>, taken |-> 0] }
    ELSE IF conns[c].peer = "reset"
    THEN { [res |-> "oserror", data |-> << >>, taken |-> 0] }
    ELSE IF Len(Inbuf(c)) >= n
    THEN { [res |-> "data", data |-> SubSeq(Inbuf(c), 1, n), taken |-> n] }
    ELSE { [res |-> "data", data |-> Inbuf(c) \o Zeros(n - Len(Inbuf(c))),
            taken |-> Len(Inbuf(c))] }

Recvall(c, n) ==
    IF ~conns[c].srvOpen
    THEN \* closed by stop(): shutdown wakes a blocked recv with 0 bytes; a
         \* recv on the closed socket object raises OSError (EBADF)
         { [res |-> "none", data |-> << >>, taken |-> 0],
           [res |-> "oserror", data |-> << >>, taken |-> 0] }
    ELSE IF conns[c].peer = "reset"
    THEN { [res |-> "oserror", data |-> << >>, taken |-> 0] }
    ELSE IF Len(Inbuf(c)) >= n
    THEN { [res |-> "data", data |-> SubSeq(Inbuf(c), 1, n), taken |-> n] }
    ELSE \* fewer than n bytes arrive: the bytes received so far are consumed,
         \* then recv_into returns 0 (peer closed) or times out
         { [res |-> "none", data |-> << >>, taken |-> Len(Inbuf(c))] }

\* conns after connection c lost its first k unread bytes to a read
Consume(c, k) ==
    [conns EXCEPT ![c].inbuf = SubSeq(@, k + 1, Len(@)), ![c].pos = @ + k]
\* the same, in the handshake stage (hs counts the bytes that stage took)
ConsumeHs(c, k) ==
    [conns EXCEPT ![c].inbuf = SubSeq(@, k + 1, Len(@)), ![c].pos = @ + k,
                  ![c].hs = @ + k]

\* ------------------------------------------------------- server thread steps
\* _run_server, lines 104-108: socket(), bind, listen, settimeout.  bind/listen
\* raise OSError when the port is taken; the exception leaves _run_server and
\* ends the thread (exit "bind"); start() has returned by then or returns
\* without seeing it.
Bind(t) ==
    /\ thr[t].pc = "bind"
    /\ \E ok \in BOOLEAN :
         thr' = [thr EXCEPT ![t].pc = IF ok THEN "loop" ELSE "dead",
                            ![t].lsock = ok,
                            ![t].exit = IF ok THEN "none" ELSE "bind"]
    /\ UNCHANGED << should_run, server_thread, client_socket, client_output_stream,
                    camera_id, frame_queue, stats, conns, now, ui, calls,
                    lastCall,
                    lastPop, lim, app, ctl, hist >>

\* line 110: while self._should_run.is_set()
RunLoopCondAlways == TRUE
RunLoopCond == should_run

\* line 110; leaving the loop leaves the with block, which closes server_socket.
LoopCheck(t) ==
    /\ thr[t].pc = "loop"
    /\ thr' = [thr EXCEPT ![t].pc = IF RunLoopCond THEN "accept" ELSE "dead",
                          ![t].lsock = RunLoopCond,
                          ![t].exit = IF RunLoopCond THEN "none" ELSE "flag"]
    /\ UNCHANGED << should_run, server_thread, client_socket, client_output_stream,
                    camera_id, frame_queue, stats, conns, now, ui, calls,
                    lastCall,
                    lastPop, lim, app, ctl, hist >>

Pending(t) == { c \in 1..Len(conns) : conns[c].lst = t /\ ~conns[c].acc }

\* line 112: accept() returns the oldest pending connection.
AcceptConn(t) ==
    /\ thr[t].pc = "accept"
    /\ Pending(t) # {}
    /\ LET c == CHOOSE x \in Pending(t) : \A y \in Pending(t) : x <= y IN
         /\ thr' = [thr EXCEPT ![t].pc = "assign", ![t].cs = c]
         /\ conns' = [conns EXCEPT ![c].acc = TRUE, ![c].srvOpen = TRUE]
    /\ UNCHANGED << should_run, server_thread, client_socket, client_output_stream,
                    camera_id, frame_queue, stats, now, ui, calls, lastCall,
                    lastPop, lim, app, ctl, hist >>

\* lines 115-118: of the exceptions accept() raises, socket.timeout continues
\* the loop and any other OSError breaks it
AcceptLoopBreaksNever(e) == FALSE
AcceptLoopBreaks(e) == e # "timeout"

\* the thread record after accept() raised e: back at line 110, or out of the
\* loop and of the with block of line 104 (server_socket closed, thread ended)
AfterAcceptException(th, e) ==
    IF AcceptLoopBreaks(e)
    THEN [th EXCEPT !.pc = "dead", !.lsock = FALSE, !.exit = "oserror"]
    ELSE [th EXCEPT !.pc = "loop"]

\* lines 112, 115-116: accept() times out (no connection within 1 s): continue.
AcceptTimeout(t) ==
    /\ thr[t].pc = "accept"
    /\ Pending(t) = {}
    /\ thr' = [thr EXCEPT ![t] = AfterAcceptException(@, "timeout")]
    /\ UNCHANGED << should_run, server_thread, client_socket, client_output_stream,
                    camera_id, frame_queue, stats, conns, now, ui, calls,
                    lastCall,
                    lastPop, lim, app, ctl, hist >>

\* lines 112, 117-118: accept() raises a non-timeout OSError: break.
AcceptError(t) ==
    /\ thr[t].pc = "accept"
    /\ thr' = [thr EXCEPT ![t] = AfterAcceptException(@, "oserror")]
    /\ UNCHANGED << should_run, server_thread, client_socket, client_output_stream,
                    camera_id, frame_queue, stats, conns, now, ui, calls,
                    lastCall,
                    lastPop, lim, app, ctl, hist >>

\* line 113: self._client_socket = client_socket
AssignClient(t) ==
    /\ thr[t].pc = "assign"
    /\ client_socket' = thr[t].cs
    /\ thr' = [thr EXCEPT ![t].pc = "handle"]
    /\ UNCHANGED << should_run, server_thread, client_output_stream,
                    camera_id, frame_queue, stats, conns, now, ui, calls,
                    lastCall,
                    lastPop, lim, app, ctl, hist >>

\* line 128: window_start = time.time(), at being the time of the call
WindowStartEpoch(at) == 0
WindowStart(at) == at

\* _handle_client, lines 121-128.  setsockopt on a socket stop() has closed
\* raises OSError, which leaves _handle_client and breaks the accept loop
\* (lines 117-118).
HandleEnter(t) ==
    /\ thr[t].pc = "handle"
    /\ IF conns[thr[t].cs].srvOpen
       THEN /\ client_output_stream' = thr[t].cs
            /\ thr' = [thr EXCEPT ![t].pc = "hs_header", ![t].frame_count = 0,
                                  ![t].window_start = WindowStart(now)]
       ELSE /\ thr' = [thr EXCEPT ![t].pc = "dead", ![t].lsock = FALSE,
                                  ![t].exit = "oserror"]
            /\ UNCHANGED client_output_stream
    /\ hist' = [hist EXCEPT !.wn = 0]
    /\ UNCHANGED << should_run, server_thread, client_socket,
                    camera_id, frame_queue, stats, conns, now, ui, calls,
                    lastCall,
                    lastPop, lim, app, ctl >>

\* lines 131-136 and 145-146: the optional metadata header.
HandshakeHeader(t) ==
    /\ thr[t].pc = "hs_header"
    /\ \E r \in Recvall(thr[t].cs, HeaderLen) :
         /\ conns' = ConsumeHs(thr[t].cs, r.taken)
         /\ thr' = IF r.res = "data" /\ 0 < Unpack(r.data)
                                     /\ Unpack(r.data) < MetadataLimit
                   THEN [thr EXCEPT ![t].pc = "hs_meta",
                                    ![t].frame_length = Unpack(r.data)]
                   ELSE [thr EXCEPT ![t].pc = "floop"]
    /\ UNCHANGED << should_run, server_thread, client_socket, client_output_stream,
                    camera_id, frame_queue, stats, now, ui, calls, lastCall,
                    lastPop, lim, app, ctl, hist >>

\* lines 137-146: the metadata payload.
HandshakeMeta(t) ==
    /\ thr[t].pc = "hs_meta"
    /\ \E r \in Recvall(thr[t].cs, thr[t].frame_length) :
         /\ conns' = ConsumeHs(thr[t].cs, r.taken)
         /\ camera_id' = IF r.res = "data" THEN MetadataCameraId(r.data, camera_id)
                         ELSE camera_id
         /\ stats' = IF r.res = "data" /\ MetadataParses(r.data)
                     THEN [stats EXCEPT !.camera_id = camera_id']
                     ELSE stats
    /\ thr' = [thr EXCEPT ![t].pc = "floop", ![t].frame_length = 0]
    /\ UNCHANGED << should_run, server_thread, client_socket, client_output_stream,
                    frame_queue, now, ui, calls, lastCall, lastPop, lim, app,
                    ctl, hist >>

\* line 148: while self._should_run.is_set()
FrameLoopCheck(t) ==
    /\ thr[t].pc = "floop"
    /\ thr' = [thr EXCEPT ![t].pc = IF should_run THEN "f_header" ELSE "end"]
    /\ UNCHANGED << should_run, server_thread, client_socket, client_output_stream,
                    camera_id, frame_queue, stats, conns, now, ui, calls,
                    lastCall,
                    lastPop, lim, app, ctl, hist >>

\* line 154: the lengths the frame loop rejects
BadLength(frame_length) == frame_length <= 0 \/ frame_length > MaxFrameLength

\* lines 151-152, 157-158 and 169-172: what ends the frame loop by break, and
\* so the session only: None from _recvall ("none": clean close, timeout, short
\* read) and an OSError of recv_into ("oserror": ConnectionError and the other
\* OSErrors are both caught)
FrameLoopBreaksOnNoneOnly(res) == res = "none"
FrameLoopBreaks(res) == res \in { "none", "oserror" }

\* the thread record after the frame loop was left with outcome res: by break
\* (line 174 follows), or by an exception that reaches lines 117-118
LeaveFrameLoop(th, res) ==
    IF FrameLoopBreaks(res) THEN [th EXCEPT !.pc = "end"]
    ELSE [th EXCEPT !.pc = "dead", !.lsock = FALSE, !.exit = "oserror"]

\* lines 150-155, 169-172: the frame header.  A rejected length: continue.
FrameHeader(t) ==
    /\ thr[t].pc = "f_header"
    /\ \E r \in Recvall(thr[t].cs, HeaderLen) :
         /\ conns' = Consume(thr[t].cs, r.taken)
         /\ thr' = IF r.res # "data"
                   THEN [thr EXCEPT ![t] = LeaveFrameLoop(@, r.res)]
                   ELSE IF BadLength(Unpack(r.data))
                   THEN [thr EXCEPT ![t].pc = "floop"]
                   ELSE [thr EXCEPT ![t].pc = "f_payload",
                                    ![t].frame_length = Unpack(r.data)]
         /\ hist' = [hist EXCEPT !.rejected =
                        IF r.res = "data" /\ BadLength(Unpack(r.data))
                        THEN @ \cup { [c |-> thr[t].cs, at |-> conns[thr[t].cs].pos + HeaderLen,
                                       len |-> Unpack(r.data)] }
                        ELSE @]
    /\ UNCHANGED << should_run, server_thread, client_socket, client_output_stream,
                    camera_id, frame_queue, stats, now, ui, calls, lastCall,
                    lastPop, lim, app, ctl >>

\* lines 156-161, 169-172: the payload; on success now = time.time() and
\* _push_frame(frame_data, now) is entered.
FramePayload(t) ==
    /\ thr[t].pc = "f_payload"
    /\ \E r \in Recvall(thr[t].cs, thr[t].frame_length) :
         /\ conns' = Consume(thr[t].cs, r.taken)
         /\ IF r.res = "data"
            THEN /\ thr' = [thr EXCEPT ![t].pc = "push_drain",
                                       ![t].frame_data = r.data, ![t].ts = now,
                                       ![t].drained = FALSE]
                 /\ UNCHANGED hist
            ELSE /\ thr' = [thr EXCEPT ![t] = LeaveFrameLoop(@, r.res)]
                 /\ UNCHANGED hist
    /\ UNCHANGED << should_run, server_thread, client_socket, client_output_stream,
                    camera_id, frame_queue, stats, now, ui, calls, lastCall,
                    lastPop, lim, app, ctl >>

\* queue.Queue.empty(), line 179
QueueEmptyAlways(q) == TRUE
QueueEmpty(q) == Len(q) = 0

\* _push_frame, line 179: while not self.frame_queue.empty()
PushDrainCheck(t) ==
    /\ thr[t].pc = "push_drain"
    /\ thr' = [thr EXCEPT ![t].pc = IF QueueEmpty(frame_queue) THEN "push_put"
                                    ELSE "push_get"]
    /\ UNCHANGED << should_run, server_thread, client_socket, client_output_stream,
                    camera_id, frame_queue, stats, conns, now, ui, calls,
                    lastCall,
                    lastPop, lim, app, ctl, hist >>

\* queue.Queue.get_nowait() of a queue q returns or raises at once, whatever q
\* holds (get() would wait for an item)
GetWaits(q) == Len(q) > 0
GetNowaitReturns(q) == TRUE

\* the queue after a get_nowait() that returned its head
QueueKeepsHead(q) == q
QueueAfterGet(q) == Tail(q)

\* _push_frame, lines 180-183: get_nowait(); queue.Empty breaks the loop.
PushDrainGet(t) ==
    /\ thr[t].pc = "push_get"
    /\ GetNowaitReturns(frame_queue)
    /\ IF Len(frame_queue) > 0
       THEN /\ frame_queue' = QueueAfterGet(frame_queue)
            /\ thr' = [thr EXCEPT ![t].pc = "push_drain", ![t].drained = TRUE]
            /\ hist' = [hist EXCEPT !.since = "drain", !.qAt = QueueAfterGet(@)]
       ELSE /\ thr' = [thr EXCEPT ![t].pc = "push_put"]
            /\ UNCHANGED << frame_queue, hist >>
    /\ UNCHANGED << should_run, server_thread, client_socket, client_output_stream,
                    camera_id, stats, conns, now, ui, calls, lastCall,
                    lastPop, lim, app, ctl >>

\* _push_frame, lines 185-189: put_nowait((frame_data, timestamp)); queue.Full
\* is swallowed and the frame dropped.
PushPut(t) ==
    /\ thr[t].pc = "push_put"
    /\ IF Len(frame_queue) < QueueMaxSize
       THEN /\ frame_queue' = Append(frame_queue,
                                     FrameItem(thr[t].frame_data, thr[t].ts))
            /\ hist' = [hist EXCEPT
                          !.torn = @ \/ Head(frame_queue') # << thr[t].frame_data, thr[t].ts >>,
                          !.lastPut = << thr[t].frame_data, thr[t].ts >>,
                          !.replaced = thr[t].drained, !.since = "put",
                          !.qAt = Append(@, [c |-> thr[t].cs,
                                             at |-> conns[thr[t].cs].pos]),
                          !.wn = @ + 1]
       ELSE /\ hist' = [hist EXCEPT !.full = TRUE,
                          !.lastPut = << thr[t].frame_data, thr[t].ts >>,
                          !.replaced = thr[t].drained, !.since = "put",
                          !.wn = @ + 1]
            /\ UNCHANGED frame_queue
    /\ thr' = [thr EXCEPT ![t].pc = "push_stats", ![t].drained = FALSE]
    /\ UNCHANGED << should_run, server_thread, client_socket, client_output_stream,
                    camera_id, stats, conns, now, ui, calls, lastCall,
                    lastPop, lim, app, ctl >>

\* line 165: if elapsed >= 1.0 (time in whole seconds)
WindowElapsedAlways(elapsed) == TRUE
WindowElapsed(elapsed) == elapsed >= 1

\* line 190: self.stats.last_updated = timestamp
LastUpdatedKept(current, timestamp) == current
LastUpdatedAfterPush(current, timestamp) == timestamp

\* line 190 (stats.last_updated = timestamp) and lines 163-168 (the FPS
\* window); fps is kept as the fraction << frame_count, elapsed >>.
PushStats(t) ==
    /\ thr[t].pc = "push_stats"
    /\ LET n == thr[t].frame_count + 1
           elapsed == thr[t].ts - thr[t].window_start
       IN IF WindowElapsed(elapsed)
          THEN /\ stats' = [stats EXCEPT
                                 !.last_updated = LastUpdatedAfterPush(@, thr[t].ts),
                                 !.fps = << n, elapsed >>]
               /\ hist' = [hist EXCEPT !.wn = 0]
               /\ thr' = [thr EXCEPT ![t].pc = "floop", ![t].frame_count = 0,
                                     ![t].window_start = thr[t].ts,
                                     ![t].frame_data = << >>, ![t].frame_length = 0]
          ELSE /\ stats' = [stats EXCEPT
                                 !.last_updated = LastUpdatedAfterPush(@, thr[t].ts)]
               /\ UNCHANGED hist
               /\ thr' = [thr EXCEPT ![t].pc = "floop", ![t].frame_count = n,
                                     ![t].frame_data = << >>, ![t].frame_length = 0]
    /\ UNCHANGED << should_run, server_thread, client_socket, client_output_stream,
                    camera_id, frame_queue, conns, now, ui, calls, lastCall,
                    lastPop, lim, app, ctl >>

\* a connection whose server-side socket object is gone: its unread bytes are
\* gone with it, and nothing more is observed of it
LeftOpenConn(conn) == conn
ClosedConn(conn) ==
    [conn EXCEPT !.srvOpen = FALSE, !.peer = "gone", !.inbuf = << >>, !.todo = << >>,
                 !.nunits = 0, !.first = << >>, !.pos = 0, !.hs = 0, !.out = << >>]

\* line 174: self._client_output_stream = None
StreamKept(stream) == stream
StreamAfterSession(stream) == 0

\* line 174, then the end of "with client_socket" (line 121) closes the socket
\* and _run_server goes back to line 110.
SessionEnd(t) ==
    /\ thr[t].pc = "end"
    /\ client_output_stream' = StreamAfterSession(client_output_stream)
    /\ conns' = [conns EXCEPT ![thr[t].cs] = ClosedConn(@)]
    /\ hist' = [hist EXCEPT !.rejected = { r \in @ : r.c # thr[t].cs }, !.wn = 0]
    /\ thr' = [thr EXCEPT ![t] = [InitThread EXCEPT !.pc = "loop", !.lsock = TRUE]]
    /\ UNCHANGED << should_run, server_thread, client_socket,
                    camera_id, frame_queue, stats, now, ui, calls, lastCall,
                    lastPop, lim, app, ctl >>

\* ----------------------------------------------------------- the UI thread
\* start(), line 84: the early return
StartReturnsNever == FALSE
StartReturns == server_thread # 0 /\ Alive(server_thread)

\* start(), lines 83-88.
Start ==
    /\ ui = "idle"
    /\ calls < lim.calls
    /\ IF StartReturns
       THEN /\ UNCHANGED << should_run, server_thread, thr >>
            /\ hist' = [hist EXCEPT !.startNoop = TRUE]
       ELSE /\ should_run' = TRUE
            /\ thr' = Append(thr, InitThread)
            /\ server_thread' = Len(thr) + 1
            /\ UNCHANGED hist
    /\ calls' = calls + 1
    /\ lastCall' = "start"
    /\ UNCHANGED << client_socket, client_output_stream, camera_id, frame_queue,
                    stats, conns, now, ui, lastPop, lim, app, ctl >>

\* threading.Event.clear(), line 91: the value of the flag afterwards
EventClearSets == TRUE
EventClear == FALSE

\* stop(), line 91: self._should_run.clear()
StopClear ==
    /\ ui = "idle"
    /\ calls < lim.calls
    /\ should_run' = EventClear
    /\ ui' = "stop"
    /\ UNCHANGED << server_thread, client_socket, client_output_stream, camera_id,
                    frame_queue, stats, thr, conns, now, calls, lastCall,
                    lastPop,
                    lim, app, ctl, hist >>

\* stop(), lines 92-101: shutdown and close self._client_socket, set it to
\* None, return.
StopClose ==
    /\ ui = "stop"
    /\ IF client_socket # 0
       THEN /\ conns' = [conns EXCEPT ![client_socket].srvOpen = FALSE]
            /\ client_socket' = 0
       ELSE UNCHANGED << conns, client_socket >>
    /\ ui' = "idle"
    /\ calls' = calls + 1
    /\ lastCall' = "stop"
    /\ UNCHANGED << should_run, server_thread, client_output_stream, camera_id,
                    frame_queue, stats, thr, now, lastPop, lim, app, ctl,
                    hist >>

\* a server thread is inside _push_frame, has removed an unread frame and has
\* not yet put the new one
MidReplace == \E t \in 1..Len(thr) :
                 thr[t].pc \in { "push_drain", "push_get", "push_put" } /\ thr[t].drained

PopSince(since) == IF since = "put" THEN "pop1"
                   ELSE IF since = "pop1" THEN "pop2" ELSE since

\* line 643: max((now - timestamp) * 1000.0, 0.0), time in whole seconds
LatencyMs(at, timestamp) ==
    IF (at - timestamp) * 1000 > 0 THEN (at - timestamp) * 1000 ELSE 0

\* _poll_frames, lines 613-623, with _display_frame, lines 625-648:
\* get_nowait(); on a frame, Image.open succeeds (displayed) or raises (ignored),
\* and a displayed frame sets stats.latency_ms (line 643).
PollFrames ==
    /\ ui = "idle"
    /\ IF Len(frame_queue) > 0
       THEN LET item == Head(frame_queue)
                timestamp == IF Len(item) >= 2 THEN item[2] ELSE now
                from == Head(hist.qAt)
            IN /\ frame_queue' = QueueAfterGet(frame_queue)
               /\ lastPop' = item
               /\ hist' = [hist EXCEPT !.since = PopSince(@),
                                        !.qAt = QueueAfterGet(@),
                                        !.popAt = from,
                                        !.disorder = @ \/ (/\ from.c = hist.popAt.c
                                                           /\ from.at <= hist.popAt.at)]
               /\ \E displayed \in BOOLEAN :
                    stats' = IF displayed
                             THEN [stats EXCEPT !.latency_ms =
                                     LatencyMs(now, timestamp)]
                             ELSE stats
       ELSE /\ lastPop' = NoFrame
            /\ hist' = [hist EXCEPT !.emptyMidPush = @ \/ MidReplace,
                                     !.since = PopSince(@)]
            /\ UNCHANGED << frame_queue, stats >>
    /\ UNCHANGED << should_run, server_thread, client_socket, client_output_stream,
                    camera_id, thr, conns, now, ui, calls, lastCall, lim,
                    app, ctl >>

\* ------------------------------------------------------ the control channel
\* str.encode('utf-8') of one code point; lone surrogates (U+D800..U+DFFF)
\* have no encoding (UnicodeEncodeError)
Encodable(cp) == cp < 55296 \/ cp > 57343
EncodeLatin1(cp) == << cp % 256 >>
EncodeChar(cp) ==
    IF cp < 128 THEN << cp >>
    ELSE IF cp < 2048 THEN << 192 + (cp \div 64), 128 + (cp % 64) >>
    ELSE IF cp < 65536
    THEN << 224 + (cp \div 4096), 128 + ((cp \div 64) % 64), 128 + (cp % 64) >>
    ELSE << 240 + (cp \div 262144), 128 + ((cp \div 4096) % 64),
            128 + ((cp \div 64) % 64), 128 + (cp % 64) >>

RECURSIVE Encode(_)
Encode(str) == IF str = << >> THEN << >>
               ELSE EncodeChar(Head(str)) \o Encode(Tail(str))

\* the commands of this model: "Z", "Z:", "\u00e9" and a lone surrogate
Commands == { << 90 >>, << 90, 58 >>, << 233 >>, << 55296 >> }

\* line 212: except Exception catches every exception the body raises
CaughtOSErrorOnly(e) == e \in { "OSError", "timeout" }
Caught(e) == TRUE

\* send_control_command, line 208: if self._client_output_stream; with no
\* client attached the call returns.
SendCheck ==
    /\ ui = "idle"
    /\ ctl.n < MaxCmds
    /\ \E command \in Commands :
         IF client_output_stream # 0
         THEN /\ ui' = "send"
              /\ ctl' = [ctl EXCEPT !.command = command, !.n = @ + 1]
         ELSE /\ ui' = "idle"
              /\ ctl' = [ctl EXCEPT !.n = @ + 1, !.res = "noop", !.exc = "none"]
    /\ UNCHANGED << should_run, server_thread, client_socket, client_output_stream,
                    camera_id, frame_queue, stats, thr, conns, now, calls, lastCall,
                    lastPop, lim, hist, app >>

\* what lines 209-211 can do: the exception raised ("none": sendall returned)
\* and the number of bytes of data that went out on connection c.
\*   - self._client_output_stream is None by now: AttributeError
\*   - command.encode raises UnicodeEncodeError
\*   - the socket was closed by stop(), or the connection reset: OSError
\*   - sendall sends everything, or times out (line 125) after a part
SendOutcomes(c, command) ==
    IF c = 0
    THEN { [exc |-> "AttributeError", sent |-> 0] }
    ELSE IF \E i \in 1..Len(command) : ~Encodable(command[i])
    THEN { [exc |-> "UnicodeEncodeError", sent |-> 0] }
    ELSE IF ~conns[c].srvOpen \/ conns[c].peer = "reset"
    THEN { [exc |-> "OSError", sent |-> 0] }
    ELSE { [exc |-> "none", sent |-> Len(Encode(command)) + 1] }
         \cup { [exc |-> "timeout", sent |-> k] : k \in 0..Len(Encode(command)) }

\* send_control_command, lines 209-213:
\* self._client_output_stream.sendall(command.encode('utf-8') + b'\n')
SendWrite ==
    /\ ui = "send"
    /\ LET c == client_output_stream IN
       \E r \in SendOutcomes(c, ctl.command) :
         /\ conns' = IF r.sent > 0
                     THEN [conns EXCEPT ![c].out =
                             @ \o SubSeq(Encode(ctl.command) \o << 10 >>, 1, r.sent)]
                     ELSE conns
         /\ ctl' = [ctl EXCEPT !.command = << >>, !.exc = r.exc,
                                !.res = IF r.exc = "none" THEN "sent"
                                        ELSE IF Caught(r.exc) THEN "absorbed"
                                        ELSE "raised"]
    /\ ui' = "idle"
    /\ UNCHANGED << should_run, server_thread, client_socket, client_output_stream,
                    camera_id, frame_queue, stats, thr, now, calls, lastCall,
                    lastPop, lim, hist, app >>

\* ------------------------------------------------------------ the registry
\* str.strip(), on the strings of this model: spaces off both ends
RECURSIVE StripLeft(_)
StripLeft(str) == IF str # << >> /\ Head(str) = 32 THEN StripLeft(Tail(str)) ELSE str
RECURSIVE StripRight(_)
StripRight(str) == IF str # << >> /\ str[Len(str)] = 32
                   THEN StripRight(SubSeq(str, 1, Len(str) - 1)) ELSE str
Strip(str) == StripRight(StripLeft(str))

\* what the user may type in the dialog: "Camera 1", " Camera 1 ", "B", " B ",
\* "" and " " as name; "h" and "" as host; text that is no number, and numbers
\* below, in and above the accepted range, as port
NameInputs == { Camera1Name, << 32 >> \o Camera1Name \o << 32 >>, << 66 >>,
                << 32, 66, 32 >>, << >>, << 32 >> }
HostInputs == { DefaultHost, << >> }
PortInputs == { NoPort } \cup { [num |-> TRUE, val |-> v] : v \in { 1023, 5001, 65536 } }

\* _show_add_camera_dialog, lines 790-824: the dialog opens with "Camera <n+1>",
\* "0.0.0.0" and 5000 + n in its entries, n the number of cameras.
OpenDialog ==
    /\ ui = "idle"
    /\ ~app.dialog
    /\ LET n == Cardinality(DOMAIN app.cameras)
       IN app' = [app EXCEPT !.dialog = TRUE, !.error_label = "",
                    !.name_entry = << 67, 97, 109, 101, 114, 97, 32, 48 + n + 1 >>,
                    !.host_entry = << 48, 46, 48, 46, 48, 46, 48 >>,
                    !.port_entry = [num |-> TRUE, val |-> 5000 + n]]
    /\ UNCHANGED << should_run, server_thread, client_socket, client_output_stream,
                    camera_id, frame_queue, stats, thr, conns, now, ui, calls,
                    lastCall, lastPop, lim, hist, ctl >>

\* the user types in the entries of the open dialog
EditDialog ==
    /\ ui = "idle"
    /\ app.dialog
    /\ \E name \in NameInputs, host \in HostInputs, port \in PortInputs :
         app' = [app EXCEPT !.name_entry = name, !.host_entry = host,
                            !.port_entry = port]
    /\ UNCHANGED << should_run, server_thread, client_socket, client_output_stream,
                    camera_id, frame_queue, stats, thr, conns, now, ui, calls,
                    lastCall, lastPop, lim, hist, ctl >>

\* the Cancel button, line 857: dialog.destroy
CancelDialog ==
    /\ ui = "idle"
    /\ app.dialog
    /\ app' = [app EXCEPT !.dialog = FALSE, !.error_label = "",
                          !.name_entry = << >>, !.host_entry = << >>,
                          !.port_entry = NoPort]
    /\ UNCHANGED << should_run, server_thread, client_socket, client_output_stream,
                    camera_id, frame_queue, stats, thr, conns, now, ui, calls,
                    lastCall, lastPop, lim, hist, ctl >>

\* _add_camera, lines 274-286, on the ViewerApp state a: a new queue, stats
\* record and server, stored under the camera_id given (replacing what was
\* there).
AddCameraTo(a, id, host, port) ==
    [a EXCEPT !.cameras = (id :> [queue |-> a.nobj + 1, stats |-> a.nobj + 2,
                                  server |-> a.nobj + 3, host |-> host,
                                  port |-> port]) @@ @,
              !.nobj = @ + 3]

\* line 840: if name in self.cameras
NameTakenNever(a, name) == FALSE
NameTaken(a, name) == name \in DOMAIN a.cameras

\* the Add button, add_camera, lines 826-850.
AddCamera ==
    /\ ui = "idle"
    /\ app.dialog
    /\ app.adds < MaxAdds
    /\ LET name == Strip(app.name_entry)
           host == Strip(app.host_entry)
           port == app.port_entry
           a == [app EXCEPT !.adds = @ + 1]
           added == AddCameraTo(a, name, host, port.val)
       IN app' =
            IF ~port.num
            THEN [a EXCEPT !.error_label = "Invalid port number"]
            ELSE IF name = << >>
            THEN [a EXCEPT !.error_label = "Please enter a camera name"]
            ELSE IF host = << >>
            THEN [a EXCEPT !.error_label = "Please enter a host/IP address"]
            ELSE IF port.val < MinPort \/ port.val > MaxPort
            THEN [a EXCEPT !.error_label = "Port must be between 1024 and 65535"]
            ELSE IF NameTaken(a, name)
            THEN [a EXCEPT !.error_label = "Camera already exists"]
            ELSE [added EXCEPT !.started = @ \cup { added.cameras[name].server },
                               !.dialog = FALSE, !.error_label = "",
                               !.name_entry = << >>, !.host_entry = << >>,
                               !.port_entry = NoPort]
    /\ UNCHANGED << should_run, server_thread, client_socket, client_output_stream,
                    camera_id, frame_queue, stats, thr, conns, now, ui, calls,
                    lastCall, lastPop, lim, hist, ctl >>

\* _switch_camera, lines 288-292
SwitchCamera ==
    /\ ui = "idle"
    /\ \E id \in { Strip(n) : n \in NameInputs } :
         app' = IF id \in DOMAIN app.cameras
                THEN [app EXCEPT !.active_camera_id = id] ELSE app
    /\ UNCHANGED << should_run, server_thread, client_socket, client_output_stream,
                    camera_id, frame_queue, stats, thr, conns, now, ui, calls,
                    lastCall, lastPop, lim, hist, ctl >>

\* ------------------------------------------------------------- the clients
InitConn(t) ==
    [lst |-> t, acc |-> FALSE, srvOpen |-> FALSE, peer |-> "open",
     inbuf |-> << >>, todo |-> << >>, nunits |-> 0,
     first |-> << >>, pos |-> 0, hs |-> 0, out |-> << >>]

\* a client connects to a listening socket (the connection waits in its backlog)
ClientConnect ==
    /\ Len(conns) < lim.conns
    /\ \E t \in 1..Len(thr) :
         /\ thr[t].lsock
         /\ conns' = Append(conns, InitConn(t))
    /\ UNCHANGED << should_run, server_thread, client_socket, client_output_stream,
                    camera_id, frame_queue, stats, thr, now, ui, calls,
                    lastCall,
                    lastPop, lim, app, ctl, hist >>

\* Bytes written before accept() returns wait in the socket unread, as do bytes
\* written just after it, so the clients of this model write once accepted.
Writable(c) == conns[c].peer = "open" /\ conns[c].acc /\ conns[c].srvOpen

\* the client writes the 4-byte length prefix of its next unit
ClientSendHeader(c) ==
    /\ Writable(c)
    /\ conns[c].todo = << >>
    /\ conns[c].nunits < lim.frames
    /\ \E u \in lim.units :
         conns' = [conns EXCEPT ![c].inbuf = @ \o u.hdr,
                                ![c].todo = u.body, ![c].nunits = @ + 1,
                                ![c].first = IF conns[c].nunits = 0
                                             THEN u.hdr \o u.body ELSE @]
    /\ UNCHANGED << should_run, server_thread, client_socket, client_output_stream,
                    camera_id, frame_queue, stats, thr, now, ui, calls,
                    lastCall,
                    lastPop, lim, app, ctl, hist >>

\* the k-th frame of a client that numbers its frames: [1]["1"], [1]["2"], ...
Numbered(k) == Unit(1, << 48 + k >>)

\* the client writes the length prefix of its next frame, numbered
ClientSendNumbered(c) ==
    /\ Writable(c)
    /\ conns[c].todo = << >>
    /\ conns[c].nunits < lim.frames
    /\ LET u == Numbered(conns[c].nunits + 1)
       IN conns' = [conns EXCEPT ![c].inbuf = @ \o u.hdr,
                                 ![c].todo = u.body, ![c].nunits = @ + 1,
                                 ![c].first = IF conns[c].nunits = 0
                                              THEN u.hdr \o u.body ELSE @]
    /\ UNCHANGED << should_run, server_thread, client_socket, client_output_stream,
                    camera_id, frame_queue, stats, thr, now, ui, calls,
                    lastCall,
                    lastPop, lim, app, ctl, hist >>

\* the client writes the body of the unit whose prefix it has written
ClientSendBody(c) ==
    /\ Writable(c)
    /\ conns[c].todo # << >>
    /\ conns' = [conns EXCEPT ![c].inbuf = @ \o conns[c].todo, ![c].todo = << >>]
    /\ UNCHANGED << should_run, server_thread, client_socket, client_output_stream,
                    camera_id, frame_queue, stats, thr, now, ui, calls,
                    lastCall,
                    lastPop, lim, app, ctl, hist >>

\* the client closes its end (FIN), or the connection is reset (RST)
ClientClose(c) ==
    /\ conns[c].peer = "open"
    /\ conns[c].acc
    /\ \E how \in { "closed", "reset" } :
         conns' = [conns EXCEPT ![c].peer = how]
    /\ UNCHANGED << should_run, server_thread, client_socket, client_output_stream,
                    camera_id, frame_queue, stats, thr, now, ui, calls,
                    lastCall,
                    lastPop, lim, app, ctl, hist >>

\* time passes
Tick ==
    /\ now < lim.time
    /\ now' = now + 1
    /\ UNCHANGED << should_run, server_thread, client_socket, client_output_stream,
                    camera_id, frame_queue, stats, thr, conns, ui, calls,
                    lastCall,
                    lastPop, lim, app, ctl, hist >>

\* ------------------------------------------------------------ specifications
Threads == 1..Len(thr)
Conns == 1..Len(conns)

ServerStep(t) ==
    \/ Bind(t) \/ LoopCheck(t) \/ AcceptConn(t) \/ AcceptTimeout(t)
    \/ AcceptError(t) \/ AssignClient(t) \/ HandleEnter(t)
    \/ HandshakeHeader(t) \/ HandshakeMeta(t) \/ FrameLoopCheck(t)
    \/ FrameHeader(t) \/ FramePayload(t) \/ PushDrainCheck(t) \/ PushDrainGet(t)
    \/ PushPut(t) \/ PushStats(t) \/ SessionEnd(t)

\* what the server threads do under every specification
ServerSteps ==
    \/ \E t \in Threads : Bind(t)
    \/ \E t \in Threads : LoopCheck(t)
    \/ \E t \in Threads : AcceptConn(t)
    \/ \E t \in Threads : AcceptTimeout(t)
    \/ \E t \in Threads : AcceptError(t)
    \/ \E t \in Threads : AssignClient(t)
    \/ \E t \in Threads : HandleEnter(t)
    \/ \E t \in Threads : HandshakeHeader(t)
    \/ \E t \in Threads : HandshakeMeta(t)
    \/ \E t \in Threads : FrameLoopCheck(t)
    \/ \E t \in Threads : FrameHeader(t)
    \/ \E t \in Threads : FramePayload(t)
    \/ \E t \in Threads : PushDrainCheck(t)
    \/ \E t \in Threads : PushDrainGet(t)
    \/ \E t \in Threads : PushPut(t)
    \/ \E t \in Threads : PushStats(t)
    \/ \E t \in Threads : SessionEnd(t)

\* the same, with clients that send any of the units
Serve ==
    \/ ServerSteps
    \/ \E c \in Conns : ClientSendHeader(c)
    \/ \E c \in Conns : ClientSendBody(c)
    \/ \E c \in Conns : ClientClose(c)
    \/ ClientConnect

\* the same, with a consumer that polls at any rate
Run == Serve \/ PollFrames

\* The data path: one start() and one client session, in which the client sends
\* up to MaxUnits units of any kind while time passes and the consumer polls.
\* (Several sessions, and stop(), are SpecLife's.)
Init == InitCommon /\ lim = [units |-> AllUnits, calls |-> 1, conns |-> 1,
                             frames |-> MaxUnits, time |-> MaxTime]

Next == Start \/ Tick \/ Run

Spec == Init /\ [][Next]_vars

\* The lifecycle: start() and stop() calls in any order, successive client
\* sessions of one short frame each.
InitLife == InitCommon /\ lim = [units |-> { FrameB }, calls |-> MaxCalls,
                                 conns |-> MaxConns, frames |-> 1, time |-> 0]

NextLife == Start \/ StopClear \/ StopClose \/ Run

SpecLife == InitLife /\ [][NextLife]_vars

\* The handshake: successive client sessions of two units each, the first any
\* of the handshakes; the consumer does not poll.
InitHs == InitCommon /\ lim = [units |-> HsUnits, calls |-> 1, conns |-> MaxConns,
                               frames |-> 2, time |-> 0]

NextHs == Start \/ Serve

SpecHs == InitHs /\ [][NextHs]_vars

\* The order of frames: successive sessions in which the client sends numbered
\* frames (the first of which the handshake stage takes) and the consumer polls
\* at any rate.
InitOrder == InitCommon /\ lim = [units |-> {}, calls |-> 1, conns |-> MaxConns,
                                  frames |-> MaxUnits + 2, time |-> 0]

NextOrder ==
    \/ Start
    \/ ServerSteps
    \/ \E c \in Conns : ClientSendNumbered(c)
    \/ \E c \in Conns : ClientSendBody(c)
    \/ \E c \in Conns : ClientClose(c)
    \/ ClientConnect
    \/ PollFrames

SpecOrder == InitOrder /\ [][NextOrder]_vars

\* The control channel: one start(), one stop(), one client session of two
\* frames, and send_control_command calls at any moment.
InitControl == InitCommon /\ lim = [units |-> { FrameB }, calls |-> 2, conns |-> 1,
                                    frames |-> 2, time |-> 0]

NextControl == Start \/ StopClear \/ StopClose \/ Serve \/ SendCheck \/ SendWrite

SpecControl == InitControl /\ [][NextControl]_vars

\* The registry: the add-camera dialog and the camera selector.
InitRegistry == InitCommon /\ lim = [units |-> {}, calls |-> 0, conns |-> 0,
                                     frames |-> 0, time |-> 0]

NextRegistry == OpenDialog \/ EditDialog \/ CancelDialog \/ AddCamera \/ SwitchCamera

SpecRegistry == InitRegistry /\ [][NextRegistry]_vars

\* The server threads are scheduled and their blocking calls return (accept
\* after at most 1 s, line 108; recv_into after at most 5 s, line 125), and a
\* stop() call that has begun runs to its end.
FairStep(t) == t <= Len(thr) /\ ServerStep(t)
SpecLifeFair ==
    SpecLife /\ WF_vars(StopClose) /\ \A t \in 1..MaxCalls : WF_vars(FairStep(t))

\* One session of numbered frames, with the one server thread of the run
\* scheduled; nothing is assumed of the consumer (it may never poll) or of the
\* client.
InitPush == InitCommon /\ lim = [units |-> {}, calls |-> 1, conns |-> 1,
                                 frames |-> MaxUnits + 2, time |-> 0]

SpecPush == InitPush /\ [][NextOrder]_vars /\ WF_vars(FairStep(1))

\* Successive sessions under one start() and one stop() call in any order: the
\* clients send one short frame each, close or reset at any moment, and the
\* server threads and a stop() call that has begun are scheduled.
InitSession == InitCommon /\ lim = [units |-> { FrameB }, calls |-> 2,
                                    conns |-> MaxConns, frames |-> 1, time |-> 0]

NextSession == Start \/ StopClear \/ StopClose \/ Serve

SpecSession ==
    /\ InitSession /\ [][NextSession]_vars
    /\ WF_vars(StopClose) /\ WF_vars(FairStep(1)) /\ WF_vars(FairStep(2))

\* The FPS window: one session of short frames while time passes; the consumer
\* does not poll.
InitFps == InitCommon /\ lim = [units |-> { FrameB }, calls |-> 1, conns |-> 1,
                                frames |-> MaxUnits + 2, time |-> MaxTime + 1]

NextFps == Start \/ Tick \/ Serve

SpecFps == InitFps /\ [][NextFps]_vars

\* The statistics across sessions: one start() and one stop() call in any
\* order, successive sessions of short frames while time passes; the consumer
\* does not poll.
InitStatsRun == InitCommon /\ lim = [units |-> { FrameB }, calls |-> 2,
                                     conns |-> MaxConns, frames |-> 2,
                                     time |-> MaxTime]

NextStats == Start \/ StopClear \/ StopClose \/ Tick \/ Serve

SpecStats == InitStatsRun /\ [][NextStats]_vars

\* ------------------------------------------------------------------ claims
\* C1 (latest wins): every _push_frame call puts its frame (queue.Full is never
\* raised), so that after pushes A then B with no pop between, and until a
\* later push starts draining, the queue holds exactly B; the consumer's next
\* get_nowait returns B and empties the queue, and the one after reports empty.
C1_LatestWins ==
    /\ ~hist.full
    /\ hist.since = "put" => frame_queue = << hist.lastPut >>
    /\ hist.since = "pop1" => lastPop = hist.lastPut /\ frame_queue = << >>
    /\ hist.since = "pop2" => lastPop = NoFrame /\ frame_queue = << >>

\* B replaced an unread frame, was popped, and a second pop found nothing
C1_Witness ==
    /\ hist.replaced
    /\ hist.since = "pop2"
    /\ hist.lastPut[1] = FrameB.body
    /\ lastPop = NoFrame

\* C2: under every interleaving of the _push_frame steps with the consumer's
\* pops the queue holds at most one item, and every item in it, and every item
\* popped, is the whole (frame_data, timestamp) pair of one _push_frame call.
C2_AtMostOneWholeFrame ==
    /\ Len(frame_queue) <= 1
    /\ ~hist.torn
    /\ \A i \in 1..Len(frame_queue) : Len(frame_queue[i]) = 2
    /\ lastPop # NoFrame => Len(lastPop) = 2

\* the consumer popped between the producer's empty() and its get_nowait()
C2_Witness ==
    /\ lastPop # NoFrame
    /\ frame_queue = << >>
    /\ \E t \in Threads : thr[t].pc = "push_get"

\* C3 (push is atomic with respect to pop): no consumer pop finds the queue
\* empty between the removal of the unread frame A and the put of B.
C3_PushAtomic == ~hist.emptyMidPush

\* C4: when the first unit a client sends is a valid frame (no handshake), the
\* handshake stage of _handle_client takes no byte of the stream.
C4_FirstFrameKept ==
    \A c \in Conns :
        conns[c].first \in { FrameA.hdr \o FrameA.body, FrameB.hdr \o FrameB.body }
            => conns[c].hs = 0

\* what a step of thread t out of a payload read, out of put_nowait, or out
\* of a session's end must do
C5_Step(t) ==
    LET c == thr[t].cs
        L == thr[t].frame_length
        buf == conns[c].inbuf
    IN /\ (thr[t].pc = "f_payload" /\ thr'[t].pc # "f_payload") =>
            /\ 0 < L /\ L <= MaxFrameLength
            /\ IF conns[c].srvOpen /\ conns[c].peer # "reset" /\ Len(buf) >= L
               THEN /\ thr'[t].pc = "push_drain"
                    /\ thr'[t].frame_data = SubSeq(buf, 1, L)
                    /\ Len(thr'[t].frame_data) = L
                    /\ conns'[c].inbuf = SubSeq(buf, L + 1, Len(buf))
               ELSE /\ thr'[t].pc = "end"
                    /\ frame_queue' = frame_queue
       /\ (thr[t].pc = "push_put" /\ thr'[t].pc # "push_put" /\ frame_queue' # frame_queue) =>
            frame_queue'[Len(frame_queue')][1] = thr[t].frame_data
       /\ (thr[t].pc = "end" /\ thr'[t].pc # "end") =>
            /\ ~conns'[c].srvOpen
            /\ frame_queue' = frame_queue
\* C5 (framing round trip): the frame loop reads a payload only for a length
\* 0 < L <= 5242880; when the L bytes arrive, the frame data handed to
\* _push_frame, and the payload put on the queue, are exactly the next L bytes
\* of the stream, which are consumed; when they do not (close, timeout, reset
\* or local close during the payload) nothing is pushed and the session ends.
C5_FramingRoundTrip == [][\A t \in Threads : C5_Step(t)]_vars

\* the frame [5]["AAAAA"] went through whole, and the payload read of the next
\* frame fell short and ended the session
C5_Witness ==
    /\ lastPop # NoFrame
    /\ lastPop[1] = FrameA.body
    /\ \E t \in Threads : thr[t].pc = "end" /\ thr[t].frame_length > 0

\* C6: after a rejected length prefix L (zero, or above 5242880) the session
\* reads nothing more, or has discarded the L declared bytes: it never takes
\* bytes of the rejected payload as a header or as frame data.
C6_RejectedLengthDrained ==
    \A r \in hist.rejected :
        \/ conns[r.c].pos = r.at
        \/ conns[r.c].pos >= r.at + r.len

\* C7: when stop() has returned (and no start() since), every accept loop has
\* exited and every client socket of the endpoint is closed.
Quiet == /\ \A t \in Threads : ~Alive(t)
         /\ \A c \in Conns : ~conns[c].srvOpen
C7_StopWaits == (lastCall = "stop" /\ ui = "idle") => Quiet

\* C8 (shutdown is live): once stop() has returned, in whatever state it found
\* the server thread, the accept loop exits and the session's socket is closed,
\* unless a start() follows.
C8_StopQuiesces == (lastCall = "stop" /\ ui = "idle") ~> (lastCall = "start" \/ Quiet)

\* stop() found a session, and the endpoint has come to rest
C8_Witness ==
    /\ lastCall = "stop"
    /\ Quiet
    /\ \E t \in Threads : thr[t].exit = "flag"
    /\ \E c \in Conns : conns[c].acc

\* C9: after a start() call has returned (and no stop() since) the run flag is
\* set, which the accept loop needs to keep running.
C9_StartListens == (lastCall = "start" /\ ui = "idle") => should_run

\* C10: start() on a Listening endpoint is a no-op: at most one server thread
\* is alive and at most one listening socket is open.
C10_OneAcceptLoop ==
    /\ Cardinality({ t \in Threads : Alive(t) }) <= 1
    /\ Cardinality({ t \in Threads : thr[t].lsock }) <= 1

\* start() was called on the endpoint while it was listening
C10_Witness ==
    /\ hist.startNoop
    /\ lastCall = "start"
    /\ \E t \in Threads : thr[t].lsock /\ thr[t].pc = "accept"

\* C11: when bind or listen fails for the thread a start() call created, the
\* call does not return normally with the endpoint marked running (the run flag
\* set): the failure reaches the caller and the endpoint is not Listening.
C11_BindFailureReported ==
    (/\ server_thread # 0
     /\ thr[server_thread].exit = "bind"
     /\ lastCall = "start"
     /\ ui = "idle") => ~should_run

\* C19: once stop() has returned (and no start() since), no listening socket
\* of the endpoint is open, so that its host and port can be bound again.
PortHeld == \E t \in Threads : thr[t].lsock
C19_PortFreeAfterStop == (lastCall = "stop" /\ ui = "idle") => ~PortHeld

\* a step of a stop() call made when the endpoint was never started or when
\* the last call to return was a stop()
C20_Step ==
    (ui' # ui /\ (ui = "stop" \/ ui' = "stop") /\ lastCall # "start") =>
        /\ ~should_run /\ ~should_run'
        /\ thr' = thr /\ server_thread' = server_thread
        /\ frame_queue' = frame_queue /\ stats' = stats /\ camera_id' = camera_id
        /\ client_output_stream' = client_output_stream
        /\ (\A t \in Threads : ~Alive(t)) => conns' = conns
        /\ ui = "stop" => (ui' = "idle" /\ lastCall' = "stop")
\* C20 (stop is idempotent): stop() on an endpoint that was never started, or
\* whose last call was stop(), leaves the run flag cleared, creates no thread,
\* leaves the queue, the stats and the identity as they are, and returns
\* normally; when no server thread is alive it changes no connection either.
C20_StopIdempotent == [][C20_Step]_vars

\* stop() was called on an endpoint that was not running: twice before any
\* start(), or around the one start() whose thread has since left on the flag
C20_Witness ==
    /\ lastCall = "stop"
    /\ ui = "idle"
    /\ ~hist.startNoop
    /\ \/ calls = 2 /\ thr = << >>
       \/ calls = 3 /\ Len(thr) = 1 /\ thr[1].exit = "flag" /\ client_socket = 0

\* the identity a first unit carries when it is a well-formed handshake
\* [17]{"camera_id":"C"} or [17]{"camera_id":"D"}, else ""
HelloIdentity(first) ==
    IF first = Hello.hdr \o Hello.body THEN "C"
    ELSE IF first = HelloD.hdr \o HelloD.body THEN "D" ELSE ""

\* the handshake stage of connection c has read the whole of its first unit,
\* a well-formed handshake
HandshakeDone(c) ==
    /\ HelloIdentity(conns[c].first) # ""
    /\ conns[c].hs = Len(conns[c].first)

\* C13: from the moment the handshake stage has read a well-formed handshake,
\* hence before the frame loop of that session pushes a frame, the endpoint's
\* camera_id and stats.camera_id are the identity it carries; and the two change
\* only in the step that completes such a handshake, so that every later read
\* of the stats gives that identity until another handshake succeeds.
C13_HandshakeSetsIdentity ==
    /\ [](\A c \in Conns : HandshakeDone(c) =>
              /\ camera_id = HelloIdentity(conns[c].first)
              /\ stats.camera_id = HelloIdentity(conns[c].first))
    /\ [][(camera_id' # camera_id \/ stats'.camera_id # stats.camera_id) =>
              \E c \in Conns :
                  /\ conns[c].hs < Len(conns[c].first)
                  /\ conns'[c].hs = Len(conns[c].first)
                  /\ camera_id' = HelloIdentity(conns[c].first)
                  /\ stats'.camera_id = camera_id']_vars

\* a second session's handshake named the camera "D", and a frame of that
\* session has been pushed since
C13_Witness ==
    /\ camera_id = "D"
    /\ stats.camera_id = "D"
    /\ \E t \in Threads :
          /\ thr[t].cs = 2
          /\ thr[t].pc = "push_stats"
          /\ HandshakeDone(2)
          /\ hist.lastPut[1] = FrameB.body

\* the handshake stage of connection c is over and has failed in one of these
\* ways: the declared length of the first unit is outside (0, 1024) and the
\* stage took the prefix only, or the payload it read is not a well-formed
\* handshake (invalid UTF-8, invalid JSON)
HandshakeFailed(c) ==
    LET first == conns[c].first
        declared == Unpack(SubSeq(first, 1, HeaderLen))
    IN /\ first # << >>
       /\ HelloIdentity(first) = ""
       /\ IF 0 < declared /\ declared < MetadataLimit
          THEN conns[c].hs = Len(first)
          ELSE conns[c].hs = HeaderLen

\* C14: a handshake that fails leaves camera_id and stats.camera_id as they
\* were (here: as constructed, there being one session), and the frame loop that
\* follows takes no byte of the failed handshake: it has read nothing yet, or
\* reads from the end of the handshake's bytes on.
C14_FailedHandshakeHarmless ==
    \A c \in Conns : HandshakeFailed(c) =>
        /\ camera_id = InitStats.camera_id
        /\ stats.camera_id = InitStats.camera_id
        /\ conns[c].pos = conns[c].hs \/ conns[c].pos >= Len(conns[c].first)

\* the payload of the numbered frame that ends at offset at of its stream
SentAt(at) == Numbered(at \div (HeaderLen + 1)).body

C18_PushTerminates ==
    /\ (server_thread # 0 /\ thr[server_thread].pc = "push_drain")
           ~> (server_thread # 0 /\ thr[server_thread].pc = "floop")
    /\ [](\A t \in Threads : thr[t].pc = "push_stats" =>
              /\ ~hist.full
              /\ hist.lastPut = << thr[t].frame_data, thr[t].ts >>
              /\ hist.since = "put" => frame_queue = << hist.lastPut >>)

\* three frames were pushed while the consumer never polled, and the frame
\* loop is back at its head
C18_Witness ==
    /\ lastPop = NoFrame
    /\ hist.popAt = NoOrigin
    /\ hist.replaced
    /\ hist.lastPut[1] = Numbered(4).body
    /\ frame_queue # << >>
    /\ \E t \in Threads : thr[t].pc = "floop"

\* a step of a send_control_command call
SendStep == ctl' # ctl

\* what the socket of a command must carry: its UTF-8 bytes and one newline
Wire(command) ==
    IF command = << 90 >> THEN << 90, 10 >>
    ELSE IF command = << 90, 58 >> THEN << 90, 58, 10 >>
    ELSE IF command = << 233 >> THEN << 195, 169, 10 >>
    ELSE << >>

\* connection c apart from the bytes written to its client
Inbound(c) == [conns[c] EXCEPT !.out = << >>]

\* C16: a send_control_command call never raises to its caller and changes
\* nothing of the endpoint but the bytes written to the attached client: the
\* run flag, the server threads (accept loop and session), the queue, the
\* stats, the identity and the socket attributes stay as they are; with no
\* client attached it writes nothing and returns; an exception of the write
\* (the stream gone or closed between the check and the write included) is
\* absorbed.
C16_ControlHarmless ==
    [][SendStep =>
        /\ should_run' = should_run /\ thr' = thr /\ server_thread' = server_thread
        /\ frame_queue' = frame_queue /\ stats' = stats /\ camera_id' = camera_id
        /\ client_socket' = client_socket
        /\ client_output_stream' = client_output_stream
        /\ Len(conns') = Len(conns)
        /\ \A c \in Conns : Inbound(c)' = Inbound(c)
        /\ ctl'.res # "raised"
        /\ (ui = "idle" /\ client_output_stream = 0) =>
              (conns' = conns /\ ui' = "idle" /\ ctl'.res = "noop")
        /\ ctl'.exc # "none" => ctl'.res = "absorbed"]_vars

\* a call found a client attached, the session ended before its write, and
\* the AttributeError was absorbed while the accept loop went on
C16_Witness ==
    /\ ctl.res = "absorbed"
    /\ ctl.exc = "AttributeError"
    /\ ui = "idle"
    /\ client_output_stream = 0
    /\ \E t \in Threads : thr[t].pc = "accept"

InFrameLoop == { "floop", "f_header", "f_payload", "push_drain", "push_get",
                 "push_put", "push_stats", "end" }

\* the server thread of the endpoint is at position pc
ServerAt(pc) == server_thread # 0 /\ thr[server_thread].pc = pc

\* C21: whatever ends a session in the frame loop (clean close, read timeout,
\* connection reset, short payload read) ends that session only: no step of
\* the frame loop ends the server thread or closes its listening socket, the
\* end of the session closes the session's socket only, and, unless stop()
\* clears the run flag, the thread is back in accept(); a connection that
\* waits while the thread is there is then accepted and its session begun by
\* the same thread (no start() call), unless the flag is cleared or accept()
\* fails.
C21_SessionEndOnly ==
    /\ [][\A t \in Threads : thr[t].pc \in InFrameLoop =>
            /\ thr'[t].pc # "dead" /\ thr'[t].lsock
            /\ thr'[t].pc \in InFrameLoop \cup { "loop" }
            /\ (thr[t].pc = "end" /\ thr'[t].pc # "end") =>
                  /\ thr'[t].pc = "loop"
                  /\ should_run' = should_run
                  /\ client_output_stream' = 0
                  /\ \A c \in Conns : c # thr[t].cs => conns'[c] = conns[c]]_vars
    /\ (ServerAt("end") /\ should_run) ~> (ServerAt("accept") \/ ~should_run)
    /\ (ServerAt("accept") /\ Pending(server_thread) # {} /\ should_run)
          ~> (\/ ServerAt("hs_header")
              \/ ~should_run
              \/ server_thread # 0 /\ thr[server_thread].exit = "oserror")

\* after one start() and no stop(), the first session is over and the same
\* thread has pushed a frame of the session of a second connection
C21_Witness ==
    /\ calls = 1
    /\ lastCall = "start"
    /\ should_run
    /\ Len(thr) = 1
    /\ Len(conns) = 2
    /\ conns[1].peer = "gone"
    /\ thr[1].cs = 2
    /\ thr[1].pc = "push_stats"

\* what a step of thread t in the accept loop (lines 110-118) must do
C22_Step(t) ==
    /\ (thr[t].pc = "accept" /\ thr'[t].pc = "loop") =>
          /\ Pending(t) = {}
          /\ thr'[t] = [thr[t] EXCEPT !.pc = "loop"]
          /\ thr'[t].lsock
          /\ should_run' = should_run /\ conns' = conns
    /\ (thr[t].pc = "loop" /\ thr'[t].pc # "loop") =>
          thr'[t].pc = IF should_run THEN "accept" ELSE "dead"
    /\ (thr[t].pc = "accept" /\ thr'[t].pc \notin { "accept", "loop" }) =>
          \/ thr'[t].pc = "assign" /\ Pending(t) # {}
          \/ thr'[t].pc = "dead" /\ thr'[t].exit = "oserror" /\ ~thr'[t].lsock
    /\ thr[t].exit = "oserror" =>
          /\ thr'[t] = thr[t]
          /\ \A c \in Conns : conns[c].lst = t => conns'[c].acc = conns[c].acc
          /\ Len(conns') > Len(conns) => conns'[Len(conns')].lst # t

\* C22: in the accept loop a timeout of accept() (no connection waiting)
\* changes nothing and leads back to the check of the run flag, after which
\* accept() is retried when the flag is set; a non-timeout OSError ends the
\* thread and closes the listening socket, and from then on that thread stays
\* ended: it accepts no connection and none can reach its socket.  Connections
\* are accepted again only by the thread of a later start().
C22_AcceptLoopErrors ==
    /\ [](\A t \in Threads : thr[t].exit = "oserror" =>
              thr[t].pc = "dead" /\ ~thr[t].lsock)
    /\ [][\A t \in Threads : C22_Step(t)]_vars

\* accept() failed in the thread of the first start(); a connection was
\* accepted by the thread of the second
C22_Witness ==
    /\ Len(thr) = 2
    /\ thr[1].exit = "oserror"
    /\ thr[1].cs = 0
    /\ server_thread = 2
    /\ thr[2].pc = "hs_header"
    /\ conns[thr[2].cs].lst = 2

\* the positions of a server thread that has a client session: from the return
\* of accept() (line 112) to the end of _handle_client
InSession == { "assign", "handle", "hs_header", "hs_meta" } \cup InFrameLoop

OpenSockets == { c \in Conns : conns[c].srvOpen }

\* C23: in every state at most one server thread of the endpoint has a client
\* session and at most one client socket is open; an open client socket is the
\* socket of that session; and a thread that is in the accept loop (about to
\* accept the next connection) has no open client socket: the socket of its
\* previous session was closed before.
C23_OneSession ==
    /\ Cardinality({ t \in Threads : thr[t].pc \in InSession }) <= 1
    /\ Cardinality(OpenSockets) <= 1
    /\ \A c \in OpenSockets :
          \E t \in Threads : thr[t].pc \in InSession /\ thr[t].cs = c
    /\ \A t \in Threads : thr[t].pc \in { "bind", "loop", "accept", "dead" } =>
          \A c \in Conns : conns[c].lst = t => ~conns[c].srvOpen

\* the session of a second connection is being served, the socket of the
\* first is closed
C23_Witness ==
    /\ Len(conns) = 2
    /\ conns[1].acc /\ ~conns[1].srvOpen
    /\ OpenSockets = { 2 }
    /\ \E t \in Threads : thr[t].pc = "f_header" /\ thr[t].cs = 2

\* what a step of thread t in the frame loop must do to the FPS window: the
\* step that ends a push (lines 163-168), with N the frames pushed since the
\* window started and T the time since then, and every other step
C24_Step(t) ==
    LET N == hist.wn
        T == thr[t].ts - thr[t].window_start
    IN /\ (thr[t].pc = "push_stats" /\ thr'[t].pc # "push_stats") =>
            /\ N = thr[t].frame_count + 1
            /\ IF T >= 1
               THEN /\ stats'.fps = << N, T >>
                    /\ thr'[t].frame_count = 0
                    /\ thr'[t].window_start = thr[t].ts
               ELSE /\ stats'.fps = stats.fps
                    /\ thr'[t].frame_count = N
                    /\ thr'[t].window_start = thr[t].window_start
       /\ (thr[t].pc \in InFrameLoop \ { "push_stats", "end" }) =>
            /\ stats'.fps = stats.fps
            /\ thr'[t].frame_count = thr[t].frame_count
            /\ thr'[t].window_start = thr[t].window_start

\* C24 (FPS window, time in whole seconds): the step that ends a push counts
\* the frame; when T = now - window_start >= 1 it sets fps to N / T, N being
\* the frames pushed in the window, resets the counter and starts the window
\* at now; otherwise it leaves fps and the window as they are.  fps changes in
\* no other step, and is a fraction of a count N >= 0 by a time T >= 1 (never
\* negative, never a division by zero).
C24_FpsWindow ==
    /\ [](stats.fps[1] >= 0 /\ stats.fps[2] >= 1)
    /\ [][/\ \A t \in Threads : C24_Step(t)
          /\ stats'.fps # stats.fps =>
                \E t \in Threads : /\ thr[t].pc = "push_stats"
                                   /\ thr[t].ts - thr[t].window_start >= 1]_vars

\* three frames were pushed in a window that was closed after two seconds:
\* fps 3/2, and a fourth frame is counted in the next window
C24_Witness ==
    /\ stats.fps = << 3, 2 >>
    /\ \E t \in Threads : /\ thr[t].pc = "floop"
                          /\ thr[t].frame_count = 1
                          /\ thr[t].window_start = 2

\* C25: latency is recorded at push time: the step that ends a push (the
\* stats update of the ingestion path) leaves latency_ms at the clamped age of
\* the frame pushed, max(0, now - timestamp) in milliseconds; and latency_ms
\* is never negative.
C25_LatencyAtPush ==
    /\ [](stats.latency_ms >= 0)
    /\ [][\A t \in Threads :
            (thr[t].pc = "push_stats" /\ thr'[t].pc # "push_stats") =>
                stats'.latency_ms = LatencyMs(now, thr[t].ts)]_vars

\* C26: the stats record of the endpoint is written only by its ingestion
\* path: every step that changes fps, latency_ms, last_updated or camera_id of
\* the record is a step of a server thread of the endpoint, and no step of the
\* consumer (a poll with its display, a control command, a change of the
\* registry or of the active camera) changes any of them.
C26_StatsWrittenByIngestion ==
    [][stats' # stats =>
          /\ \E t \in Threads : thr'[t] # thr[t]
          /\ lastPop' = lastPop
          /\ ctl' = ctl
          /\ app' = app]_vars

\* C27: the timestamp of a frame is the time at which its whole payload was
\* received (line 160), and the _push_frame call that puts the frame sets
\* last_updated to it (line 190): whenever no such call is between its put
\* and its end, last_updated is the timestamp of the frame put last;
\* last_updated changes in no other step and never decreases.
C27_LastUpdated ==
    /\ []((hist.lastPut # NoFrame /\ \A t \in Threads : thr[t].pc # "push_stats")
             => stats.last_updated = hist.lastPut[2])
    /\ [][/\ \A t \in Threads :
               /\ (thr[t].pc = "f_payload" /\ thr'[t].pc = "push_drain") =>
                     thr'[t].ts = now
               /\ (thr[t].pc = "push_stats" /\ thr'[t].pc # "push_stats") =>
                     /\ hist.lastPut = << thr[t].frame_data, thr[t].ts >>
                     /\ stats'.last_updated = thr[t].ts
          /\ stats'.last_updated # stats.last_updated =>
                \E t \in Threads : thr[t].pc = "push_stats" /\ thr'[t].pc # "push_stats"
          /\ stats'.last_updated >= stats.last_updated]_vars

\* two frames were pushed in one session, the second a second after the first
C27_Witness ==
    /\ stats.last_updated = 1
    /\ stats.fps = << 2, 1 >>
    /\ hist.lastPut = << FrameB.body, 1 >>
    /\ \E t \in Threads : thr[t].pc = "floop" /\ thr[t].window_start = 1

\* the positions of a server thread between line 126 and line 174
Streaming == { "hs_header", "hs_meta" } \cup InFrameLoop

\* C28: _client_output_stream is the socket of the session being handled
\* while a server thread is between lines 126 and 174, and None in every other
\* state (no thread yet, the thread in the accept loop, or ended, whatever
\* ended the session); and bytes of a control command are written only to the
\* socket, still open, of the session being handled.
C28_StreamOnlyInSession ==
    /\ [](/\ \A t \in Threads : thr[t].pc \in Streaming =>
                client_output_stream = thr[t].cs
          /\ (\A t \in Threads : thr[t].pc \notin Streaming) =>
                client_output_stream = 0)
    /\ [][\A c \in Conns :
            (conns'[c].out # conns[c].out /\ conns'[c].out # << >>) =>
                /\ c = client_output_stream
                /\ conns[c].srvOpen
                /\ \E t \in Threads : thr[t].pc \in Streaming /\ thr[t].cs = c]_vars

\* the session is over and the thread back in accept(); a control command
\* sent since found no stream and wrote nothing
C28_Witness ==
    /\ client_output_stream = 0
    /\ Len(conns) = 1
    /\ conns[1].acc /\ ~conns[1].srvOpen
    /\ conns[1].out = << >>
    /\ ctl.n = 2
    /\ ctl.res = "noop"
    /\ \E t \in Threads : thr[t].pc = "accept"

\* stop() has cleared the run flag (it is running, or was the last call to
\* return) and no start() call has followed
Stopped == ui = "stop" \/ lastCall = "stop"

\* the positions of a server thread inside _push_frame
InPush == { "push_drain", "push_get", "push_put", "push_stats" }

\* C29: once stop() has cleared the run flag, and until a start() call, the
\* endpoint accepts no connection; a server thread at the head of the frame
\* loop leaves it, so that no frame is pushed but the one whose read was in
\* progress; and when no thread is inside _push_frame the queue changes only
\* by a consumer pop.
C29_QuietAfterStop ==
    [][(Stopped /\ Stopped') =>
          /\ \A c \in Conns : conns'[c].acc = conns[c].acc
          /\ \A t \in Threads : thr[t].pc = "floop" => thr'[t].pc \in { "floop", "end" }
          /\ (\A t \in Threads : thr[t].pc \notin InPush) =>
                \/ frame_queue' = frame_queue
                \/ frame_queue # << >> /\ frame_queue' = Tail(frame_queue)
                                      /\ lastPop' = Head(frame_queue)]_vars

\* what a step of thread t must do to the stats record and to the FPS window
\* where a session ends, where the thread ends, and where a session begins
C30_Step(t) ==
    /\ (thr[t].pc = "end" /\ thr'[t].pc # "end") => stats' = stats
    /\ (thr[t].pc # "dead" /\ thr'[t].pc = "dead") => stats' = stats
    /\ (thr[t].pc = "handle" /\ thr'[t].pc = "hs_header") =>
          /\ stats' = stats
          /\ thr'[t].frame_count = 0
          /\ thr'[t].window_start = now
    /\ (thr[t].pc = "push_stats" /\ stats'.fps # stats.fps) =>
          /\ thr[t].ts - thr[t].window_start >= 1
          /\ stats'.fps[1] <= hist.wn

\* C30: the end of a session, the end of a server thread and the steps of
\* stop() leave the stats record as it is (fps is not reset); a session begins
\* with counter 0 and its window started at the time it begins, and leaves the
\* stats as they are; so fps keeps the value of the previous session until a
\* push of the new session closes a window of that session, and then counts
\* frames of the new session only.
C30_StatsSurviveSessions ==
    [][/\ \A t \in Threads : C30_Step(t)
       /\ (ui' # ui /\ (ui = "stop" \/ ui' = "stop")) => stats' = stats]_vars

\* the first session left fps at 2/1; the second session has pushed a frame
\* into its own window, and fps is still 2/1
C30_Witness ==
    /\ stats.fps = << 2, 1 >>
    /\ Len(conns) = 2
    /\ ~conns[1].srvOpen
    /\ \E t \in Threads : /\ thr[t].cs = 2
                          /\ thr[t].pc = "floop"
                          /\ thr[t].frame_count = 1
                          /\ thr[t].window_start = 1

====
